---- MODULE Spec2Model ----
(***************************************************************************)
(* FormRelay: the Cloudflare Worker of src/worker.ts, and the earlier       *)
(* single-form worker the repository also keeps (src/unnamed/part_000).    *)
(* One inbound request is followed from the fetch handler's entry to the   *)
(* response, through the awaits of parseBody and of each sendWithMailgun   *)
(* call.  Spec is the worker of src/worker.ts, SpecLegacy the single-form  *)
(* worker, SpecBoth a request handled by either.  enforceRateLimit, which  *)
(* both files define and neither calls, is followed on its own: calls from *)
(* one IP against one KV store, concurrent in SpecRateLimit and one at a   *)
(* time in SpecRateLimitSequential.                                        *)
(*                                                                         *)
(* JavaScript strings are sequences of tokens (a token is a TLA+ string    *)
(* that is never split: "/", a path segment, an origin, a word), so that   *)
(* split, startsWith, endsWith, URL resolution and concatenation are       *)
(* computed rather than tabulated.  undefined and null are the reserved    *)
(* value Undefined.                                                        *)
(***************************************************************************)
EXTENDS Integers, Sequences, FiniteSets, TLC

VARIABLES handler, pc, req, env, data, formConfig, formName, subject,
          fromEmail, recipients, idx, calls, response,
          kv, now, rate

\* The state of enforceRateLimit: the KV entry of the IP, the clock, and the
\* locals of each call.
rateVars == <<kv, now, rate>>

\* The state of one request in the fetch handler.
fetchVars == <<handler, pc, req, env, data, formConfig, formName, subject,
               fromEmail, recipients, idx, calls, response>>

vars == <<fetchVars, rateVars>>

(***************************************************************************)
(* JavaScript values                                                       *)
(***************************************************************************)
Undefined == <<"<undefined>">>

\* JavaScript truthiness of a string-or-undefined value: `if (x)`, `x || y`.
Truthy(v) == v /= Undefined /\ v /= <<>>

\* a || b
Or(a, b) == IF Truthy(a) THEN a ELSE b

\* String.prototype.startsWith('/')
StartsWithSlash(s) == Len(s) >= 1 /\ s[1] = "/"

\* String.prototype.endsWith('/submit')
EndsWithSubmit(s) == Len(s) >= 2 /\ s[Len(s) - 1] = "/" /\ s[Len(s)] = "submit"

\* String.prototype.split('/'): the pieces between the "/" tokens, empty
\* pieces included.
RECURSIVE SplitFrom(_, _, _)
SplitFrom(s, i, cur) ==
  IF i > Len(s) THEN <<cur>>
  ELSE IF s[i] = "/" THEN <<cur>> \o SplitFrom(s, i + 1, <<>>)
  ELSE SplitFrom(s, i + 1, Append(cur, s[i]))

Split(s) == SplitFrom(s, 1, <<>>)

\* Array.prototype.filter(Boolean) on an array of strings
FilterBoolean(parts) == SelectSeq(parts, LAMBDA p : p /= <<>>)

(***************************************************************************)
(* Static configuration: config/forms.json and config/defaults.json        *)
(***************************************************************************)
\* The length of the longest notifyTo list of the table.
MaxRecipients == 3

\* The table imported as formConfigs.  A FormConfig is a record; an optional
\* field that the file leaves out is left out of the record.  `enabled` is
\* read once, as `enabled === false`, so a missing flag is TRUE.
formConfigs ==
  [ ecofresh |-> [ name        |-> <<"EcoFresh Contact Form">>,
                   notifyTo    |-> << <<"sales@ecofresh.com">>,
                                     <<"support@ecofresh.com">> >>,
                   fromEmail   |-> <<"noreply@ecofresh.com">>,
                   thankYouUrl |-> <<"/", "ecofresh", "/", "thank-you">>,
                   subject     |-> <<"New EcoFresh Contact Form Submission">>,
                   enabled     |-> TRUE ],
    support  |-> [ name        |-> <<"Support Desk">>,
                   notifyTo    |-> [i \in 1..MaxRecipients |->
                                      <<"tier", ToString(i), "@support.example">>],
                   enabled     |-> TRUE ],
    partner  |-> [ name        |-> <<"Partner Inquiry">>,
                   notifyTo    |-> << <<"partners@yourdomain.com">> >>,
                   fromEmail   |-> <<"forms@mail.yourdomain.com">>,
                   thankYouUrl |-> <<"https://partner.example", "/", "thanks">>,
                   enabled     |-> TRUE ],
    closed   |-> [ name        |-> <<"Closed Survey">>,
                   notifyTo    |-> << <<"survey@yourdomain.com">> >>,
                   thankYouUrl |-> <<"/", "closed", "/", "thank-you">>,
                   subject     |-> <<"New Survey Response">>,
                   enabled     |-> FALSE ] ]

\* The record imported as defaultConfigs.
defaultConfigs ==
  [ defaultNotifyTo    |-> <<"owner@yourdomain.com">>,
    defaultFromEmail   |-> <<"forms@mail.yourdomain.com">>,
    defaultThankYouUrl |-> <<"/", "thanks">> ]

getFormConfigs == formConfigs

getDefaultConfigs == defaultConfigs

\* What `null` is for a FormConfig | null.
Null == [found |-> FALSE]

\* Properties every object literal inherits from Object.prototype: reading
\* configs["constructor"] yields the function Object, whose `name` is "Object"
\* and which has none of the FormConfig fields.
ObjectPrototype ==
  [ constructor |-> [ name |-> <<"Object">>, enabled |-> TRUE ] ]

\* configs[formName]: own properties first, then the prototype chain.
\* The key is the string formName; a string of several tokens is no key here.
Lookup(configs, key) ==
  IF Len(key) /= 1 THEN Null
  ELSE IF key[1] \in DOMAIN configs THEN configs[key[1]]
  ELSE IF key[1] \in DOMAIN ObjectPrototype THEN ObjectPrototype[key[1]]
  ELSE Null

\* formConfig?.field for a string-valued field
Field(cfg, f) == IF cfg = Null \/ f \notin DOMAIN cfg THEN Undefined ELSE cfg[f]

\* No path resolved to a configuration.
getFormConfigNever(pathname) == Null

getFormConfig(pathname) ==
  LET pathParts == FilterBoolean(Split(pathname)) IN
    IF Len(pathParts) >= 2 /\ pathParts[2] = <<"submit">>
    THEN Lookup(getFormConfigs, pathParts[1])
    ELSE Null

\* url.pathname === "/submit" ||
\*   (url.pathname.split('/').length === 3 && url.pathname.endsWith('/submit'))
isFormRoute(pathname) ==
  \/ pathname = <<"/", "submit">>
  \/ Len(Split(pathname)) = 3 /\ EndsWithSubmit(pathname)

(***************************************************************************)
(* URLs                                                                    *)
(***************************************************************************)
\* The worker's own origin, and the origins other strings may name.
OwnOrigin == "https://forms.example"

Origins == {OwnOrigin, "https://site.example", "https://partner.example",
            "https://other.example"}

\* Tokens no URL parser accepts, with or without a base (a scheme with no
\* host).
Unparseable == {"http://"}

\* The directory of a path: everything up to and including the last "/".
RECURSIVE Dir(_)
Dir(path) ==
  IF path = <<>> THEN <<"/">>
  ELSE IF path[Len(path)] = "/" THEN path
  ELSE Dir(SubSeq(path, 1, Len(path) - 1))

NoBase == [ok |-> FALSE]

\* new URL(s, base): [ok, origin, pathname]; ok = FALSE when the constructor
\* throws TypeError.  base is a parsed URL or NoBase.
NewURL(s, base) ==
  IF s /= <<>> /\ s[1] \in Unparseable THEN [ok |-> FALSE]
  ELSE IF s /= <<>> /\ s[1] \in Origins
       THEN [ok |-> TRUE, origin |-> s[1],
             pathname |-> IF Len(s) = 1 THEN <<"/">> ELSE Tail(s)]
  ELSE IF base = NoBase THEN [ok |-> FALSE]
  ELSE IF s = <<>> THEN base
  ELSE IF StartsWithSlash(s)
       THEN [ok |-> TRUE, origin |-> base.origin, pathname |-> s]
  ELSE [ok |-> TRUE, origin |-> base.origin,
        pathname |-> Dir(base.pathname) \o s]

\* URL.prototype.toString(), query and fragment left out (no target of the
\* model carries one).
UrlToString(u) == <<u.origin>> \o u.pathname

\* new URL(req.url)
RequestUrl(r) == [ok |-> TRUE, origin |-> OwnOrigin, pathname |-> r.pathname]

(***************************************************************************)
(* Request bodies                                                          *)
(***************************************************************************)
\* String.prototype.includes for a media-type token
Includes(ct, tok) == \E i \in 1..Len(ct) : ct[i] = tok

\* The index of key k in an entry list, 0 when absent.
IndexOfKey(entries, k) ==
  IF \E i \in 1..Len(entries) : entries[i][1] = k
  THEN CHOOSE i \in 1..Len(entries) : entries[i][1] = k
  ELSE 0

\* out[k] = v on an object kept as its ordered list of entries: a new key is
\* appended, an existing key keeps its place and takes the new value.
SetKey(entries, k, v) ==
  LET i == IndexOfKey(entries, k) IN
    IF i = 0 THEN Append(entries, <<k, v>>)
    ELSE [entries EXCEPT ![i] = <<k, v>>]

\* Object.fromEntries(pairs): every pair becomes an own property, whatever its
\* key (CreateDataProperty).  JSON.parse builds its object the same way.
RECURSIVE FromEntries(_, _)
FromEntries(pairs, acc) ==
  IF pairs = <<>> THEN acc
  ELSE FromEntries(Tail(pairs), SetKey(acc, pairs[1][1], pairs[1][2]))

\* out[k] = String(v) on the literal {}: an ordinary assignment, so the key
\* __proto__ reaches the setter inherited from Object.prototype, which ignores
\* a value that is neither an object nor null and creates no property.
Assign(entries, k, v) ==
  IF k = "__proto__" THEN entries ELSE SetKey(entries, k, v)

\* fd.forEach((v, k) => (out[k] = String(v)))
RECURSIVE ForEachAssign(_, _)
ForEachAssign(pairs, acc) ==
  IF pairs = <<>> THEN acc
  ELSE ForEachAssign(Tail(pairs), Assign(acc, pairs[1][1], pairs[1][2]))

Object(entries) == [kind |-> "object", entries |-> entries]

\* data.key for the value parseBody returned
Prop(v, k) ==
  IF v.kind = "object" /\ IndexOfKey(v.entries, k) /= 0
  THEN v.entries[IndexOfKey(v.entries, k)][2]
  ELSE Undefined

\* Reading a property of null throws TypeError.
PropThrows(v) == v.kind = "null"

Returned(v) == [threw |-> FALSE, value |-> v]

Threw(message) == [threw |-> TRUE, message |-> message]

\* A body is [ct, shape, pairs, text].  shape "pairs": the body carries the
\* name/value pairs `pairs`, in body order, in the encoding ct announces.
\* The other shapes are texts that carry no pairs: "invalid" is neither JSON
\* nor multipart, "null" is the JSON text null, "array" the JSON text [],
\* "string", "number" and "boolean" the JSON texts "", 0 and true.  req.json()
\* returns whatever value the text denotes; the properties the handler reads
\* of an array or a primitive are all undefined.
parseBody(body) ==
  IF Includes(body.ct, "application/json")
  THEN CASE body.shape = "pairs"   -> Returned(Object(FromEntries(body.pairs, <<>>)))
         [] body.shape = "null"    -> Returned([kind |-> "null"])
         [] body.shape \in {"array", "string", "number", "boolean"}
                                   -> Returned([kind |-> "other"])
         [] OTHER                  -> Threw(<<"Unexpected token in JSON">>)
  ELSE IF Includes(body.ct, "multipart/form-data")
  THEN IF body.shape = "pairs"
       THEN Returned(Object(ForEachAssign(body.pairs, <<>>)))
       ELSE Threw(<<"Unrecognized Content-Type header value">>)
  ELSE IF body.shape = "pairs"
       THEN Returned(Object(FromEntries(body.pairs, <<>>)))
       ELSE Returned(Object(FromEntries(<< <<body.text, <<>>>> >>, <<>>)))

(***************************************************************************)
(* Responses                                                               *)
(***************************************************************************)
NoHeaders == [h \in {} |-> <<>>]

\* new Response(body, { status, headers })
Response(body, status, headers) ==
  [status |-> status, body |-> body, headers |-> headers]

CorsHeaders ==
  [h \in {"Access-Control-Allow-Origin", "Access-Control-Allow-Methods",
          "Access-Control-Allow-Headers"} |->
     CASE h = "Access-Control-Allow-Origin"  -> <<"*">>
       [] h = "Access-Control-Allow-Methods" -> <<"POST, OPTIONS">>
       [] h = "Access-Control-Allow-Headers" -> <<"Content-Type">>]

\* hdrs.set overwrites a header the response already has.
cors(res) == [res EXCEPT !.headers = CorsHeaders @@ res.headers]

\* The catch block: cors(new Response(`Error: ${err.message || err}`, 400))
ErrorResponse(message) ==
  cors(Response(<<"Error: ">> \o message, 400, NoHeaders))

\* The 303 built at the end of the try block, headers written out by hand.
RedirectResponse(absolute) ==
  Response(<<>>, 303, ("Location" :> absolute) @@ CorsHeaders)

NoResponse == Response(<<>>, 0, NoHeaders)

(***************************************************************************)
(* The steps of fetch that the actions use                                 *)
(***************************************************************************)
\* The two `if (!env.X) throw new Error(...)` checks: the message thrown,
\* Undefined when both credentials are set.
MissingCredential(e) ==
  IF ~Truthy(e.MAILGUN_API_KEY)
  THEN <<"MAILGUN_API_KEY", " environment variable is not set">>
  ELSE IF ~Truthy(e.MAILGUN_DOMAIN)
  THEN <<"MAILGUN_DOMAIN", " environment variable is not set">>
  ELSE Undefined

\* A flag compared with the string "false" is never equal to it.
IsDisabledNever(cfg) == FALSE

\* formConfig && formConfig.enabled === false
IsDisabled(cfg) ==
  cfg /= Null /\ "enabled" \in DOMAIN cfg /\ cfg.enabled = FALSE

\* The honeypot check left out.
HoneypotNever(d) == FALSE

\* The honeypot check negated: if (!data._hp).
HoneypotInverted(d) == ~Truthy(Prop(d, "_hp"))

\* if (data._hp)
Honeypot(d) == Truthy(Prop(d, "_hp"))

\* The _form field left unread.
FormNameIgnoresField(cfg, d) == Or(Field(cfg, "name"), <<"contact">>)

\* formConfig?.name || data._form || "contact"
FormName(cfg, d) == Or(Field(cfg, "name"), Or(Prop(d, "_form"), <<"contact">>))

\* The same expression throws when it has to read data._form of null.
FormNameThrows(cfg, d) == ~Truthy(Field(cfg, "name")) /\ PropThrows(d)

\* formConfig?.subject || `New ${formName} submission`
Subject(cfg, name) ==
  Or(Field(cfg, "subject"), <<"New ">> \o name \o <<" submission">>)

\* The form's list ignored: the default recipient for every form.
RecipientsAlwaysDefault(cfg) == <<getDefaultConfigs.defaultNotifyTo>>

\* formConfig?.notifyTo || [defaults.defaultNotifyTo]
Recipients(cfg) ==
  IF cfg /= Null /\ "notifyTo" \in DOMAIN cfg
  THEN cfg.notifyTo
  ELSE <<getDefaultConfigs.defaultNotifyTo>>

\* formConfig?.fromEmail || defaults.defaultFromEmail
FromEmail(cfg) == Or(Field(cfg, "fromEmail"), getDefaultConfigs.defaultFromEmail)

\* The query parameter ranked above the form's thankYouUrl.
RedirectTargetQueryFirst(explicit, formThankYou, qsRedirect) ==
  Or(explicit, Or(qsRedirect, Or(formThankYou, <<"/", "thank-you">>)))

\* The global default thank-you URL as the last resort.
RedirectTargetGlobalDefault(explicit, formThankYou, qsRedirect) ==
  Or(explicit, Or(formThankYou, Or(qsRedirect, getDefaultConfigs.defaultThankYouUrl)))

\* explicit || formThankYou || qsRedirect || fallback
RedirectTarget(explicit, formThankYou, qsRedirect) ==
  Or(explicit, Or(formThankYou, Or(qsRedirect, <<"/", "thank-you">>)))

\* The Referer never consulted.
SmartRedirectNever(explicit, formThankYou) == FALSE

\* formThankYou && formThankYou.startsWith('/') && !explicit
SmartRedirect(explicit, formThankYou) ==
  Truthy(formThankYou) /\ StartsWithSlash(formThankYou) /\ ~Truthy(explicit)

\* The TypeError of the Referer passed on instead of caught.
RefererCatchRethrows(r, formThankYou) == Threw(<<"Invalid URL">>)

\* catch (e) { absolute = new URL(formThankYou, req.url).toString() }
RefererCatch(r, formThankYou) ==
  LET own == NewURL(formThankYou, RequestUrl(r)) IN
    IF own.ok THEN Returned(UrlToString(own)) ELSE Threw(<<"Invalid URL">>)

\* The value of `absolute`, or the TypeError new URL throws on the way.
Absolute(r, d, cfg) ==
  LET explicit     == Prop(d, "_redirect")
      formThankYou == Field(cfg, "thankYouUrl")
      qsRedirect   == r.redirect
      target       == RedirectTarget(explicit, formThankYou, qsRedirect)
      own          == NewURL(formThankYou, RequestUrl(r))
      refererUrl   == NewURL(r.referer, NoBase)
      plain        == NewURL(target, RequestUrl(r))
  IN IF SmartRedirect(explicit, formThankYou)
     THEN IF Truthy(r.referer)
          THEN IF refererUrl.ok
               THEN Returned(<<refererUrl.origin>> \o formThankYou)
               ELSE RefererCatch(r, formThankYou)
          ELSE IF own.ok THEN Returned(UrlToString(own))
               ELSE Threw(<<"Invalid URL">>)
     ELSE IF plain.ok THEN Returned(UrlToString(plain))
          ELSE Threw(<<"Invalid URL">>)

\* Lines 136-192: the response once every recipient has been sent to.
Redirect(r, d, cfg) ==
  LET absolute == Absolute(r, d, cfg) IN
    IF absolute.threw THEN ErrorResponse(absolute.message)
    ELSE RedirectResponse(absolute.value)

(***************************************************************************)
(* generateHtmlEmail and generateTextEmail                                 *)
(***************************************************************************)
\* The characters of a field name.  A name of the bodies below is spelled
\* out; any other text is taken as one character that is neither "_" nor a
\* letter.
Spelling(k) ==
  CASE k = "name"      -> <<"n", "a", "m", "e">>
    [] k = "fullName"  -> <<"f", "u", "l", "l", "N", "a", "m", "e">>
    [] k = "message"   -> <<"m", "e", "s", "s", "a", "g", "e">>
    [] k = "_hp"       -> <<"_", "h", "p">>
    [] k = "_redirect" -> <<"_", "r", "e", "d", "i", "r", "e", "c", "t">>
    [] k = "_form"     -> <<"_", "f", "o", "r", "m">>
    [] k = "__proto__" -> <<"_", "_", "p", "r", "o", "t", "o", "_", "_">>
    [] OTHER           -> <<k>>

LowerCase ==
  <<"a", "b", "c", "d", "e", "f", "g", "h", "i", "j", "k", "l", "m",
    "n", "o", "p", "q", "r", "s", "t", "u", "v", "w", "x", "y", "z">>

UpperCase ==
  <<"A", "B", "C", "D", "E", "F", "G", "H", "I", "J", "K", "L", "M",
    "N", "O", "P", "Q", "R", "S", "T", "U", "V", "W", "X", "Y", "Z">>

\* c.toUpperCase() for one character
toUpperCase(c) ==
  IF \E i \in 1..Len(LowerCase) : LowerCase[i] = c
  THEN UpperCase[CHOOSE i \in 1..Len(LowerCase) : LowerCase[i] = c]
  ELSE c

\* The character matches [A-Z].
IsCapital(c) == \E i \in 1..Len(UpperCase) : UpperCase[i] = c

\* cs.replace(/([A-Z])/g, ' $1')
RECURSIVE SpaceCapitals(_)
SpaceCapitals(cs) ==
  IF cs = <<>> THEN <<>>
  ELSE (IF IsCapital(cs[1]) THEN <<" ", cs[1]>> ELSE <<cs[1]>>)
       \o SpaceCapitals(Tail(cs))

\* No field taken for a system field.
StartsWithUnderscoreNever(k) == FALSE

\* key.startsWith('_')
StartsWithUnderscore(k) == Spelling(k) /= <<>> /\ Spelling(k)[1] = "_"

\* key.charAt(0).toUpperCase() + key.slice(1).replace(/([A-Z])/g, ' $1')
Label(k) ==
  LET cs == Spelling(k) IN
    IF cs = <<>> THEN <<>>
    ELSE <<toUpperCase(cs[1])>> \o SpaceCapitals(Tail(cs))

\* value.replace(/\n/g, '<br>')
Br(v) == [i \in 1..Len(v) |-> IF v[i] = "\n" THEN "<br>" ELSE v[i]]

\* Object.entries(data): an array or a primitive of the model has none.
ObjectEntries(d) == IF d.kind = "object" THEN d.entries ELSE <<>>

\* Object.entries(data).filter(([key]) => !key.startsWith('_'))
\*   .reduce((obj, [key, value]) => ({ ...obj, [key]: value }), {})
FilteredData(d) ==
  FromEntries(SelectSeq(ObjectEntries(d),
                        LAMBDA e : ~StartsWithUnderscore(e[1])), <<>>)

\* The parts of the HTML document that depend on the submission: the form's
\* display name and one table row per field.
generateHtmlEmail(d, name, cfg) ==
  LET filteredData == FilteredData(d) IN
    [formDisplayName |-> Or(Field(cfg, "name"), name),
     fields |-> [i \in 1..Len(filteredData) |->
                   [label |-> Label(filteredData[i][1]),
                    value |-> Br(filteredData[i][2])]]]

\* The same of the plain-text document: one `Label: value` line per field.
generateTextEmail(d, name, cfg) ==
  LET filteredData == FilteredData(d) IN
    [formDisplayName |-> Or(Field(cfg, "name"), name),
     fields |-> [i \in 1..Len(filteredData) |->
                   Label(filteredData[i][1]) \o <<": ">> \o filteredData[i][2]]]

(***************************************************************************)
(* Inputs                                                                  *)
(***************************************************************************)
Methods == {"OPTIONS", "GET", "POST"}

Pathnames ==
  { <<"/", "submit">>,
    <<"/", "ecofresh", "/", "submit">>,
    <<"/", "support", "/", "submit">>,
    <<"/", "partner", "/", "submit">>,
    <<"/", "closed", "/", "submit">>,
    <<"/", "other", "/", "submit">>,
    <<"/", "constructor", "/", "submit">>,
    <<"/", "Ecofresh", "/", "submit">>,
    <<"/", "/", "submit">>,
    <<"/", "submit", "/">>,
    <<"/", "a", "/", "b", "/", "submit">>,
    <<"/", "a", "/", "submit", "/", "x">>,
    <<"/", "thank-you">> }

\* url.searchParams.get("redirect"): null when the parameter is missing
QueryRedirects == {Undefined, <<"/", "from-query">>}

\* req.headers.get('referer'): null, a URL, or a text that is no URL
Referers == {Undefined, <<"https://site.example", "/", "page">>, <<"not-a-url">>}

\* NOTIFY_TO and FROM_EMAIL are bindings of the single-form worker only.
Envs ==
  [ MAILGUN_API_KEY : {Undefined, <<"key-123">>},
    MAILGUN_DOMAIN  : {Undefined, <<"mail.yourdomain.com">>},
    NOTIFY_TO       : {<<"owner@yourdomain.com">>},
    FROM_EMAIL      : {<<"forms@mail.yourdomain.com">>} ]

ContentTypes ==
  { <<"application/json">>,
    <<"multipart/form-data", "; boundary=x">>,
    <<"application/x-www-form-urlencoded">> }

HpValues == {Undefined, <<>>, <<"bot">>}

RedirectValues ==
  {Undefined, <<>>, <<"/", "custom">>, <<"https://other.example", "/", "done">>,
   <<"http://">>}

FormValues == {Undefined, <<"ecofresh">>}

\* The pairs of a body: the visible field, then the control fields given.
Given(k, v) == IF v = Undefined THEN <<>> ELSE << <<k, v>> >>

Pairs(hp, redirect, form) ==
  << <<"name", <<"Ann">>>> >> \o Given("_hp", hp) \o Given("_redirect", redirect)
     \o Given("_form", form)

\* Bodies that name _hp twice: filled then empty, and empty then filled.
RepeatedHp ==
  { << <<"name", <<"Ann">>>>, <<"_hp", <<"bot">>>>, <<"_hp", <<>>>> >>,
    << <<"name", <<"Ann">>>>, <<"_hp", <<>>>>, <<"_hp", <<"bot">>>> >> }

\* A body with a field named __proto__.
ProtoField == { << <<"name", <<"Ann">>>>, <<"__proto__", <<"x">>>> >> }

\* A body with a camel-case name given twice, a value of two lines, and a
\* system field between the visible ones.
Letter ==
  { << <<"name", <<"Ann">>>>, <<"fullName", <<"Ann Lee">>>>,
       <<"_form", <<"ecofresh">>>>, <<"message", <<"Hi", "\n", "there">>>>,
       <<"fullName", <<"A. Lee">>>> >> }

Bodies ==
  { [ct |-> ct, shape |-> "pairs", pairs |-> Pairs(hp, rd, fm), text |-> ""] :
      ct \in ContentTypes, hp \in HpValues, rd \in RedirectValues,
      fm \in FormValues }
  \cup
  { [ct |-> ct, shape |-> "pairs", pairs |-> ps, text |-> ""] :
      ct \in ContentTypes, ps \in RepeatedHp \cup ProtoField \cup Letter }
  \cup
  { [ct |-> ct, shape |-> sh, pairs |-> <<>>, text |-> sh] :
      ct \in ContentTypes,
      sh \in {"invalid", "null", "array", "string", "number", "boolean"} }

\* A request without a body (GET, OPTIONS).
NoBody == [ct |-> <<>>, shape |-> "pairs", pairs |-> <<>>, text |-> ""]

Requests ==
  { [method |-> m, pathname |-> p, redirect |-> q, referer |-> rf, body |-> b] :
      m \in Methods, p \in Pathnames, q \in QueryRedirects, rf \in Referers,
      b \in Bodies \cup {NoBody} }

\* Only a POST carries a body.
WellFormed(r) == r.method = "POST" \/ r.body = NoBody

\* What the provider answers to one call: a response (res.ok is the 2xx
\* range), or no response at all (fetch rejects).
ProviderOutcomes ==
  { [kind |-> "response", ok |-> TRUE,  status |-> "200", text |-> "Queued. Thank you."],
    [kind |-> "response", ok |-> FALSE, status |-> "401", text |-> "Forbidden"],
    [kind |-> "response", ok |-> FALSE, status |-> "500", text |-> "Internal Server Error"],
    [kind |-> "reject",   ok |-> FALSE, status |-> "",    text |-> "Network connection lost."] }

(***************************************************************************)
(* enforceRateLimit: values                                                *)
(***************************************************************************)
\* The number of calls followed.
MaxCalls == 6

Calls == 1..MaxCalls

\* The number of calls that may be between their start and their end at the
\* same time.
MaxInFlight == 2

\* The defaults of the parameters: limit = 5, windowSec = 600.
limit == 5

windowSec == 600

\* Date.now() / 1000 at the instants the clock is read: the start, the last
\* second of the first window, the first seconds of the next two.
Instants == {0, 599, 600, 1200}

\* No entry under the key `rate:${ip}`.
NoEntry == [found |-> FALSE]

\* The numbers a stored text can denote.
Numerals == 0..(MaxCalls + 2)

\* String(n), `${n}`
String(n) == <<ToString(n)>>

\* parseInt(str, 10) for the text of a number; -1 stands for NaN.
parseInt(str) ==
  IF Len(str) = 1 /\ \E n \in Numerals : ToString(n) = str[1]
  THEN CHOOSE n \in Numerals : ToString(n) = str[1]
  ELSE -1

\* val.split(":"): the pieces between the ":" tokens.
RECURSIVE SplitColonFrom(_, _, _)
SplitColonFrom(s, i, cur) ==
  IF i > Len(s) THEN <<cur>>
  ELSE IF s[i] = ":" THEN <<cur>> \o SplitColonFrom(s, i + 1, <<>>)
  ELSE SplitColonFrom(s, i + 1, Append(cur, s[i]))

SplitColon(s) == SplitColonFrom(s, 1, <<>>)

\* Math.floor(now / windowSec)
Bucket(t) == t \div windowSec

\* kv.get(key) at time t: null when there is no entry or it has expired.
KvGetValue(entry, t) ==
  IF entry = NoEntry \/ t >= entry.expires THEN Undefined ELSE entry.value

\* let [countStr, bucketStr] = val ? val.split(":") : ["0", String(bucket)]
\* A piece the split does not yield is undefined.
Destructure(val, bucket) ==
  LET pieces == IF Truthy(val) THEN SplitColon(val) ELSE <<String(0), String(bucket)>>
  IN [countStr  |-> IF Len(pieces) >= 1 THEN pieces[1] ELSE Undefined,
      bucketStr |-> IF Len(pieces) >= 2 THEN pieces[2] ELSE Undefined]

\* The count taken over twice.
IncrementTwice(count) == count + 2

\* count += 1
Increment(count) == count + 1

\* Lines 500-504: the count and bucket to store, from the value read.
Counted(val, bucket) ==
  LET strs         == Destructure(val, bucket)
      count        == parseInt(Or(strs.countStr, String(0)))
      storedBucket == parseInt(Or(strs.bucketStr, String(0)))
  IN IF storedBucket /= bucket
     THEN [count |-> Increment(0), storedBucket |-> bucket]
     ELSE [count |-> Increment(count), storedBucket |-> storedBucket]

\* The limit reached taken for the limit exceeded.
ExceedsAtLimit(count) == count >= limit

\* if (count > limit) throw new Error("Rate limited")
Exceeds(count) == count > limit

\* A call that has not been made.  readAt is the time kv.get settled.
NoCall == [pc |-> "idle", bucket |-> 0, readAt |-> 0, val |-> Undefined,
           count |-> 0, storedBucket |-> 0, error |-> Undefined]

(***************************************************************************)
(* State                                                                   *)
(***************************************************************************)
NoRequest ==
  [method |-> "", pathname |-> <<>>, redirect |-> Undefined,
   referer |-> Undefined, body |-> NoBody]

NoEnv ==
  [MAILGUN_API_KEY |-> Undefined, MAILGUN_DOMAIN |-> Undefined,
   NOTIFY_TO |-> Undefined, FROM_EMAIL |-> Undefined]

NoData == [kind |-> "none"]

Init ==
  /\ handler = "none"
  /\ pc = "idle"
  /\ req = NoRequest
  /\ env = NoEnv
  /\ data = NoData
  /\ formConfig = Null
  /\ formName = Undefined
  /\ subject = Undefined
  /\ fromEmail = Undefined
  /\ recipients = <<>>
  /\ idx = 0
  /\ calls = <<>>
  /\ response = NoResponse
  /\ kv = NoEntry
  /\ now = 0
  /\ rate = [p \in Calls |-> NoCall]

\* The response handed over with the handler left where it is.
ReturnWithoutEnd(res) ==
  /\ pc' = pc
  /\ response' = res

\* return res
Return(res) ==
  /\ pc' = "done"
  /\ response' = res

\* The locals of the try block are not set on this path.
NoLocals ==
  /\ formName' = Undefined
  /\ subject' = Undefined
  /\ fromEmail' = Undefined
  /\ recipients' = <<>>
  /\ idx' = 0

(***************************************************************************)
(* fetch, lines 27-65: a request arrives and runs to its first await       *)
(***************************************************************************)
\* The preflight branch left out: OPTIONS routed like any other method.
RouteWithoutPreflight(r, e) ==
  IF ~isFormRoute(r.pathname) THEN Response(<<"Not Found">>, 404, NoHeaders)
  ELSE IF r.method /= "POST"
       THEN cors(Response(<<"Method Not Allowed">>, 405, NoHeaders))
  ELSE IF MissingCredential(e) /= Undefined
       THEN ErrorResponse(MissingCredential(e))
  ELSE NoResponse

\* The response of the synchronous part, NoResponse when it goes on to
\* await parseBody(req).
Route(r, e) ==
  IF r.method = "OPTIONS" THEN cors(Response(<<>>, 204, NoHeaders))
  ELSE IF ~isFormRoute(r.pathname) THEN Response(<<"Not Found">>, 404, NoHeaders)
  ELSE IF r.method /= "POST"
       THEN cors(Response(<<"Method Not Allowed">>, 405, NoHeaders))
  ELSE IF MissingCredential(e) /= Undefined
       THEN ErrorResponse(MissingCredential(e))
  ELSE NoResponse

Fetch(r, e) ==
  /\ UNCHANGED rateVars
  /\ pc = "idle"
  /\ handler' = "worker"
  /\ WellFormed(r)
  /\ req' = r
  /\ env' = e
  /\ data' = NoData
  /\ formConfig' = Null
  /\ calls' = <<>>
  /\ NoLocals
  /\ IF Route(r, e) /= NoResponse
     THEN Return(Route(r, e))
     ELSE /\ pc' = "parseBody"
          /\ response' = NoResponse

(***************************************************************************)
(* fetch, lines 65-122: parseBody has settled                              *)
(***************************************************************************)
\* The honeypot check moved in front of the enabled check.
GuardHoneypotFirst(cfg, d) ==
  IF FormNameThrows(cfg, d) THEN "throw"
  ELSE IF PropThrows(d) THEN "throw"
  ELSE IF Honeypot(d) THEN "honeypot"
  ELSE IF IsDisabled(cfg) THEN "disabled"
  ELSE "send"

\* The outcome of lines 69-83 for parsed data d: "throw", "disabled",
\* "honeypot" or "send".
Guard(cfg, d) ==
  IF FormNameThrows(cfg, d) THEN "throw"
  ELSE IF IsDisabled(cfg) THEN "disabled"
  ELSE IF PropThrows(d) THEN "throw"
  ELSE IF Honeypot(d) THEN "honeypot"
  ELSE "send"

ParseBody ==
  /\ UNCHANGED rateVars
  /\ handler = "worker"
  /\ pc = "parseBody"
  /\ UNCHANGED <<handler, req, env, calls>>
  /\ LET parsed == parseBody(req.body)
         cfg    == getFormConfig(req.pathname)
     IN IF parsed.threw
        THEN /\ Return(ErrorResponse(parsed.message))
             /\ UNCHANGED <<data, formConfig>>
             /\ NoLocals
        ELSE LET d == parsed.value IN
             /\ data' = d
             /\ formConfig' = cfg
             /\ CASE Guard(cfg, d) = "throw" ->
                       /\ Return(ErrorResponse(<<"Cannot read properties of null">>))
                       /\ NoLocals
                  [] Guard(cfg, d) = "disabled" ->
                       /\ Return(cors(Response(<<"Form is currently disabled">>, 503, NoHeaders)))
                       /\ NoLocals
                  [] Guard(cfg, d) = "honeypot" ->
                       /\ Return(cors(Response(<<"OK">>, 200, NoHeaders)))
                       /\ NoLocals
                  [] OTHER ->
                       /\ formName' = FormName(cfg, d)
                       /\ subject' = Subject(cfg, FormName(cfg, d))
                       /\ fromEmail' = FromEmail(cfg)
                       /\ recipients' = Recipients(cfg)
                       /\ IF Recipients(cfg) = <<>>
                          THEN /\ idx' = 0
                               /\ Return(Redirect(req, d, cfg))
                          ELSE /\ idx' = 1
                               /\ pc' = "sendWithMailgun"
                               /\ response' = NoResponse

(***************************************************************************)
(* fetch, lines 124-192, and sendWithMailgun: one turn of the loop         *)
(***************************************************************************)
\* Only a 5xx answer taken for a failure.
MailgunErrorServerOnly(o) ==
  IF o.kind = "reject" THEN <<o.text>>
  ELSE IF o.status = "500" THEN <<"Mailgun failed: ", o.status, " ", o.text>>
  ELSE Undefined

\* The Error sendWithMailgun ends with for a provider outcome, Undefined
\* when it returns normally.
MailgunError(o) ==
  IF o.kind = "reject" THEN <<o.text>>
  ELSE IF ~o.ok THEN <<"Mailgun failed: ", o.status, " ", o.text>>
  ELSE Undefined

\* for (const recipient of recipients): the iterator has a next entry
HasNext(i, rs) == i < Len(rs)

\* The iterator left where it is: the same entry again.
AdvanceIndexStay(i) == i

\* and steps to it.
AdvanceIndex(i) == i + 1

\* The call record keeps the recipient, sender, subject, the two renderings
\* and the credentials of the request to the provider.
SendWithMailgun(o) ==
  /\ UNCHANGED rateVars
  /\ handler = "worker"
  /\ pc = "sendWithMailgun"
  /\ UNCHANGED <<handler, req, env, data, formConfig, formName, subject,
                 fromEmail, recipients>>
  /\ calls' = Append(calls, [to |-> recipients[idx], from |-> fromEmail,
                             subject |-> subject,
                             html |-> generateHtmlEmail(data, formName, formConfig),
                             text |-> generateTextEmail(data, formName, formConfig),
                             domain |-> env.MAILGUN_DOMAIN,
                             key |-> env.MAILGUN_API_KEY,
                             outcome |-> o])
  /\ IF MailgunError(o) /= Undefined
     THEN /\ Return(ErrorResponse(MailgunError(o)))
          /\ idx' = idx
     ELSE IF HasNext(idx, recipients)
          THEN /\ idx' = AdvanceIndex(idx)
               /\ pc' = pc
               /\ response' = response
          ELSE /\ idx' = idx
               /\ Return(Redirect(req, data, formConfig))

\* The platform hands the worker a request and its bindings.
Receive ==
  /\ pc = "idle"
  /\ \E r \in Requests, e \in Envs : Fetch(r, e)

Next ==
  \/ Receive
  \/ ParseBody
  \/ \E o \in ProviderOutcomes : SendWithMailgun(o)

Spec == Init /\ [][Next]_vars

\* The handler is resumed once the body has been read, and once a call to
\* the provider has returned or failed, which every call is taken to do.
SpecFair ==
  /\ Spec
  /\ WF_vars(ParseBody)
  /\ WF_vars(\E o \in ProviderOutcomes : SendWithMailgun(o))

(***************************************************************************)
(* The single-form worker (src/unnamed/part_000)                           *)
(***************************************************************************)
\* The static page served at /thank-you.
ThankYouPage ==
  cors(Response(<<"<!DOCTYPE html>", "Thank you! Your message has been sent successfully.">>,
                200, ("Content-Type" :> <<"text/html">>)))

\* Lines 19-53: the response of the synchronous part, NoResponse when the
\* handler goes on to await parseBody(req).
LegacyRoute(r) ==
  IF r.method = "OPTIONS" THEN cors(Response(<<>>, 204, NoHeaders))
  ELSE IF r.pathname = <<"/", "thank-you">> THEN ThankYouPage
  ELSE IF r.pathname /= <<"/", "submit">>
       THEN Response(<<"Not Found">>, 404, NoHeaders)
  ELSE IF r.method /= "POST"
       THEN cors(Response(<<"Method Not Allowed">>, 405, NoHeaders))
  ELSE NoResponse

LegacyFetch(r, e) ==
  /\ UNCHANGED rateVars
  /\ pc = "idle"
  /\ handler' = "legacy"
  /\ WellFormed(r)
  /\ req' = r
  /\ env' = e
  /\ data' = NoData
  /\ formConfig' = Null
  /\ calls' = <<>>
  /\ NoLocals
  /\ IF LegacyRoute(r) /= NoResponse
     THEN Return(LegacyRoute(r))
     ELSE /\ pc' = "parseBody"
          /\ response' = NoResponse

\* if (data._hp) return cors(new Response("OK", { status: 200 }))
LegacyHoneypot(d) == Truthy(Prop(d, "_hp"))

\* data._form || "contact"
LegacyFormName(d) == Or(Prop(d, "_form"), <<"contact">>)

\* Lines 56-87: parseBody has settled.
LegacyParseBody ==
  /\ UNCHANGED rateVars
  /\ handler = "legacy"
  /\ pc = "parseBody"
  /\ UNCHANGED <<handler, req, env, calls, formConfig>>
  /\ LET parsed == parseBody(req.body) IN
       IF parsed.threw
       THEN /\ Return(ErrorResponse(parsed.message))
            /\ UNCHANGED data
            /\ NoLocals
       ELSE LET d == parsed.value IN
            /\ data' = d
            /\ IF PropThrows(d)
               THEN /\ Return(ErrorResponse(<<"Cannot read properties of null">>))
                    /\ NoLocals
               ELSE IF LegacyHoneypot(d)
               THEN /\ Return(cors(Response(<<"OK">>, 200, NoHeaders)))
                    /\ NoLocals
               ELSE /\ formName' = LegacyFormName(d)
                    /\ subject' = <<"New ">> \o LegacyFormName(d) \o <<" submission">>
                    /\ fromEmail' = env.FROM_EMAIL
                    /\ recipients' = <<env.NOTIFY_TO>>
                    /\ idx' = 1
                    /\ pc' = "sendWithMailgun"
                    /\ response' = NoResponse

\* if (!res.ok) throw new Error(`Mailgun failed: ${res.status} ${await res.text()}`)
LegacyMailgunError(o) ==
  IF o.kind = "reject" THEN <<o.text>>
  ELSE IF ~o.ok THEN <<"Mailgun failed: ", o.status, " ", o.text>>
  ELSE Undefined

\* Lines 89-109: explicit || qsRedirect || fallback, resolved on req.url.
LegacyRedirect(r, d) ==
  LET target   == Or(Prop(d, "_redirect"), Or(r.redirect, <<"/", "thank-you">>))
      absolute == NewURL(target, RequestUrl(r))
  IN IF absolute.ok THEN RedirectResponse(UrlToString(absolute))
     ELSE ErrorResponse(<<"Invalid URL">>)

\* Lines 87-109 and sendWithMailgun: the one provider call and what follows.
LegacySendWithMailgun(o) ==
  /\ UNCHANGED rateVars
  /\ handler = "legacy"
  /\ pc = "sendWithMailgun"
  /\ UNCHANGED <<handler, req, env, data, formConfig, formName, subject,
                 fromEmail, recipients, idx>>
  /\ calls' = Append(calls, [to |-> recipients[idx], from |-> fromEmail,
                             subject |-> subject,
                             domain |-> env.MAILGUN_DOMAIN,
                             key |-> env.MAILGUN_API_KEY,
                             outcome |-> o])
  /\ IF LegacyMailgunError(o) /= Undefined
     THEN Return(ErrorResponse(LegacyMailgunError(o)))
     ELSE Return(LegacyRedirect(req, data))

LegacyReceive ==
  /\ pc = "idle"
  /\ \E r \in Requests, e \in Envs : LegacyFetch(r, e)

NextLegacy ==
  \/ LegacyReceive
  \/ LegacyParseBody
  \/ \E o \in ProviderOutcomes : LegacySendWithMailgun(o)

SpecLegacy == Init /\ [][NextLegacy]_vars

\* A request reaches one worker or the other.
NextBoth == Next \/ NextLegacy

SpecBoth == Init /\ [][NextBoth]_vars

(***************************************************************************)
(* enforceRateLimit: the steps of a call                                   *)
(***************************************************************************)
\* Lines 494-499: the call is made; it reads the clock and asks for the
\* entry.  Calls are numbered in the order they are made.
EnforceRateLimit(p) ==
  /\ rate[p].pc = "idle"
  /\ \A q \in Calls : q < p => rate[q].pc /= "idle"
  /\ Cardinality({q \in Calls : rate[q].pc \in {"get", "put"}}) < MaxInFlight
  /\ rate' = [rate EXCEPT ![p].pc = "get", ![p].bucket = Bucket(now)]
  /\ UNCHANGED <<kv, now, fetchVars>>

\* Lines 499-504: kv.get settles, and the count is worked out.
KvGet(p) ==
  /\ rate[p].pc = "get"
  /\ LET val == KvGetValue(kv, now)
         c   == Counted(val, rate[p].bucket)
     IN rate' = [rate EXCEPT ![p].pc = "put", ![p].val = val,
                              ![p].readAt = now,
                              ![p].count = c.count,
                              ![p].storedBucket = c.storedBucket]
  /\ UNCHANGED <<kv, now, fetchVars>>

\* Lines 506-507: kv.put settles, and the call returns or throws.
KvPut(p) ==
  /\ rate[p].pc = "put"
  /\ kv' = [found |-> TRUE,
            value |-> String(rate[p].count) \o <<":">> \o String(rate[p].storedBucket),
            expires |-> now + windowSec + 60]
  /\ rate' = [rate EXCEPT ![p].pc = "done",
                          ![p].error = IF Exceeds(rate[p].count)
                                       THEN <<"Rate limited">> ELSE Undefined]
  /\ UNCHANGED <<now, fetchVars>>

\* Time passes.
Tick ==
  /\ \E t \in Instants : t > now /\ now' = t
  /\ UNCHANGED <<kv, rate, fetchVars>>

NextRateLimit ==
  \/ \E p \in Calls : EnforceRateLimit(p)
  \/ \E p \in Calls : KvGet(p)
  \/ \E p \in Calls : KvPut(p)
  \/ Tick

SpecRateLimit == Init /\ [][NextRateLimit]_vars

\* A call made while no other call is between its start and its end.
EnforceRateLimitAlone(p) ==
  /\ \A q \in Calls : rate[q].pc \in {"idle", "done"}
  /\ EnforceRateLimit(p)

NextRateLimitSequential ==
  \/ \E p \in Calls : EnforceRateLimitAlone(p)
  \/ \E p \in Calls : KvGet(p)
  \/ \E p \in Calls : KvPut(p)
  \/ Tick

SpecRateLimitSequential == Init /\ [][NextRateLimitSequential]_vars

(***************************************************************************)
(* Properties                                                              *)
(***************************************************************************)
\* The request, read without the handler's own helpers.

\* The path is /submit or /{name}/submit with one non-empty name segment.
SubmissionPath(p) ==
  \/ p = <<"/", "submit">>
  \/ Len(p) = 4 /\ p[1] = "/" /\ p[2] /= "/" /\ p[3] = "/" /\ p[4] = "submit"

\* The path is /{name}/submit for a key `name` of the configuration table.
Configured(p) ==
  \E n \in DOMAIN formConfigs : p = <<"/", n, "/", "submit">>

ConfigOf(p) ==
  formConfigs[CHOOSE n \in DOMAIN formConfigs : p = <<"/", n, "/", "submit">>]

\* The path names a form whose configuration has enabled = false.
DisabledPath(p) == Configured(p) /\ ConfigOf(p).enabled = FALSE

\* The value the body gives field k: that of the last pair named k,
\* Undefined when no pair is.
Submitted(k) ==
  LET b  == req.body
      at == {i \in 1..Len(b.pairs) : b.pairs[i][1] = k}
  IN IF b.shape = "pairs" /\ at /= {}
     THEN b.pairs[CHOOSE i \in at : \A j \in at : j <= i][2]
     ELSE Undefined

\* The body carries a non-empty string for field k.
NonEmpty(k) == Submitted(k) /= Undefined /\ Submitted(k) /= <<>>

BothCredentials ==
  env.MAILGUN_API_KEY /= Undefined /\ env.MAILGUN_DOMAIN /= Undefined

IsPost == req.method = "POST"

Answered == pc = "done"

\* C1: while a request whose _hp field is a non-empty string is handled, by
\* either worker, no call to the email provider is made: the log of outbound
\* calls stays empty, whatever the path, configuration, credentials and
\* other fields are.
C1_HoneypotNeverSends == NonEmpty("_hp") => calls = <<>>

\* A bot's POST to an enabled form with recipients, credentials in place,
\* answered without a call.
C1_Witness ==
  /\ Answered /\ handler = "worker" /\ IsPost /\ BothCredentials
  /\ req.pathname = <<"/", "ecofresh", "/", "submit">>
  /\ NonEmpty("_hp")
  /\ response.status = 200
  /\ calls = <<>>

\* C2: a POST to /{name}/submit whose form is disabled never reaches
\* sendWithMailgun, whatever fields it submits.
C2_DisabledNeverSends ==
  (IsPost /\ DisabledPath(req.pathname)) => calls = <<>>

\* A well-formed submission without honeypot to the disabled form, turned
\* away after parsing.
C2_Witness ==
  /\ Answered /\ handler = "worker" /\ IsPost /\ BothCredentials
  /\ DisabledPath(req.pathname)
  /\ data /= NoData /\ data.kind = "object"
  /\ ~NonEmpty("_hp")
  /\ response.status = 503
  /\ calls = <<>>

\* C3 as stated: every POST to a submission path whose body carries a
\* non-empty _hp is answered 200 "OK", whatever the credentials and the
\* form's configuration.
C3_Original ==
  (Answered /\ IsPost /\ SubmissionPath(req.pathname) /\ NonEmpty("_hp"))
    => (response.status = 200 /\ response.body = <<"OK">>)

\* C3 amended: every POST to a submission path whose body carries a
\* non-empty _hp is answered 200 "OK" when both credentials are set and the
\* path does not name a disabled form.
C3_HoneypotAnswersOk ==
  (/\ Answered /\ IsPost /\ SubmissionPath(req.pathname) /\ NonEmpty("_hp")
   /\ BothCredentials /\ ~DisabledPath(req.pathname))
    => (response.status = 200 /\ response.body = <<"OK">>)

\* A bot's JSON POST to the bare /submit, answered OK.
C3_Witness ==
  /\ Answered /\ handler = "worker" /\ IsPost /\ BothCredentials
  /\ req.pathname = <<"/", "submit">>
  /\ Includes(req.body.ct, "application/json")
  /\ NonEmpty("_hp")
  /\ response.status = 200 /\ response.body = <<"OK">>

\* C4 as stated: every request but OPTIONS to the path of a disabled form is
\* answered 503, whatever the method, the credentials and the body.
C4_Original ==
  (Answered /\ req.method /= "OPTIONS" /\ DisabledPath(req.pathname))
    => response.status = 503

\* C4 amended: a POST to the path of a disabled form is answered 503 when
\* both credentials are set and the body parses; a method other than POST
\* and OPTIONS is answered 405, a POST with a credential missing 400, and a
\* POST whose body fails to parse 400.
C4_DisabledAnswers503 ==
  (Answered /\ req.method /= "OPTIONS" /\ DisabledPath(req.pathname))
    => response.status =
         IF ~IsPost THEN 405
         ELSE IF ~BothCredentials THEN 400
         ELSE IF parseBody(req.body).threw THEN 400
         ELSE 503

\* A bot's POST to the disabled form: the enabled check comes first.
C4_Witness ==
  /\ Answered /\ handler = "worker" /\ IsPost /\ BothCredentials
  /\ DisabledPath(req.pathname)
  /\ NonEmpty("_hp")
  /\ response.status = 503
  /\ response.body = <<"Form is currently disabled">>

\* The paths the worker that took the request serves as submission paths:
\* the single-form worker has /submit alone.
ServedSubmissionPath ==
  IF handler = "legacy" THEN req.pathname = <<"/", "submit">>
  ELSE SubmissionPath(req.pathname)

\* The credential the error message has to name.
MissingName ==
  { n \in {"MAILGUN_API_KEY", "MAILGUN_DOMAIN"} : env[n] = Undefined }

\* What C5 asks of a POST to a submission path with a credential missing:
\* it is answered at once, 400, naming a missing credential, with no
\* provider call and the body unparsed.
CredentialRefusal ==
  /\ Answered
  /\ response.status = 400
  /\ \E n \in MissingName :
       response.body = <<"Error: ", n, " environment variable is not set">>
  /\ calls = <<>>
  /\ data = NoData

\* C5: with MAILGUN_API_KEY or MAILGUN_DOMAIN absent, every POST to a
\* submission path is answered 400 `Error: <message>` naming the missing
\* credential; no provider call is attempted and the body is not parsed.
C5_MissingCredential ==
  (pc /= "idle" /\ IsPost /\ ServedSubmissionPath /\ ~BothCredentials)
    => CredentialRefusal

\* The same for the worker of src/worker.ts alone.
C5_WorkerMissingCredential ==
  (handler = "worker" /\ IsPost /\ SubmissionPath(req.pathname) /\ ~BothCredentials)
    => CredentialRefusal

\* The recipient list the claims expect for the request's path.
ResolvedRecipients ==
  IF Configured(req.pathname) THEN ConfigOf(req.pathname).notifyTo
  ELSE <<defaultConfigs.defaultNotifyTo>>

\* The addresses called, in call order.
Dispatched == [j \in 1..Len(calls) |-> calls[j].to]

Failed(k) == ~calls[k].outcome.ok

\* What the fan-out part of C6 asks once call k has failed: r1..r(k-1) were
\* each sent to once, successfully, rk once, nothing after rk, and the
\* request is answered 400 with the CORS headers and nothing else.
AbortedAt(k) ==
  /\ k = Len(calls)
  /\ k <= Len(recipients)
  /\ \A j \in 1..k : calls[j].to = recipients[j]
  /\ \A j \in 1..(k - 1) : ~Failed(j)
  /\ Answered
  /\ response.status = 400
  /\ DOMAIN response.headers = DOMAIN CorsHeaders

\* C6 as stated: when the dispatch to rk is the first to fail, r1..r(k-1)
\* have been dispatched once each, rk once, r(k+1)..rn never, and the
\* response is 400 `Error: Mailgun failed: <status> <body>`.
C6_Original ==
  \A k \in 1..Len(calls) :
    Failed(k) =>
      /\ AbortedAt(k)
      /\ response.body = <<"Error: ", "Mailgun failed: ", calls[k].outcome.status,
                           " ", calls[k].outcome.text>>

\* C6 amended: the same fan-out, and the 400 body is
\* `Error: Mailgun failed: <status> <body>` when the provider answered rk
\* with a non-success status, and `Error: <message>` with the message of the
\* rejection when the call to the provider itself threw.
C6_FirstFailureAborts ==
  \A k \in 1..Len(calls) :
    Failed(k) =>
      /\ AbortedAt(k)
      /\ response.body =
           IF calls[k].outcome.kind = "response"
           THEN <<"Error: ", "Mailgun failed: ", calls[k].outcome.status,
                  " ", calls[k].outcome.text>>
           ELSE <<"Error: ", calls[k].outcome.text>>

\* The second of three recipients answered 500: two calls, then the 400.
C6_Witness ==
  /\ Answered /\ handler = "worker"
  /\ Len(recipients) >= 3 /\ Len(calls) = 2
  /\ calls[1].outcome.ok
  /\ calls[2].outcome.status = "500"
  /\ response.status = 400

\* C7: while one request is handled, the provider is called at most once
\* per entry of the resolved recipient list: the j-th call is the one for
\* the j-th entry, and there are never more calls than entries.
C7_OneCallPerRecipient ==
  /\ Len(calls) <= Len(recipients)
  /\ \A j \in 1..Len(calls) : calls[j].to = recipients[j]

\* All three recipients of a form served, one call each.
C7_Witness ==
  /\ Answered /\ handler = "worker"
  /\ Len(recipients) >= 3 /\ Len(calls) = Len(recipients)
  /\ \A j \in 1..Len(calls) : calls[j].outcome.ok
  /\ response.status = 303

HasValue(v) == v /= Undefined /\ v /= <<>>

ThankYouUrl ==
  IF Configured(req.pathname) /\ "thankYouUrl" \in DOMAIN ConfigOf(req.pathname)
  THEN ConfigOf(req.pathname).thankYouUrl
  ELSE Undefined

\* The target by the stated precedence.
Chosen ==
  IF HasValue(Submitted("_redirect")) THEN Submitted("_redirect")
  ELSE IF HasValue(ThankYouUrl) THEN ThankYouUrl
  ELSE IF HasValue(req.redirect) THEN req.redirect
  ELSE <<"/", "thank-you">>

\* A string resolved against the request URL.
OnRequestUrl(s) == UrlToString(NewURL(s, RequestUrl(req)))

Redirected == Answered /\ response.status = 303

Location == response.headers["Location"]

\* C9: the Location of a 303 is the target chosen by the precedence
\* _redirect, thankYouUrl, ?redirect=, /thank-you, placed on an origin; with
\* a _redirect given it is _redirect resolved against the request URL,
\* whatever the Referer, thankYouUrl and query are.
C9_RedirectPrecedence ==
  Redirected =>
    /\ Location \in {OnRequestUrl(Chosen)} \cup {<<o>> \o Chosen : o \in Origins}
    /\ HasValue(Submitted("_redirect")) => Location = OnRequestUrl(Submitted("_redirect"))

\* _redirect, ?redirect= and a root-relative thankYouUrl all given, with a
\* Referer that parses.
C9_Witness ==
  /\ Redirected /\ handler = "worker"
  /\ Submitted("_redirect") = <<"/", "custom">>
  /\ req.redirect = <<"/", "from-query">>
  /\ ThankYouUrl = <<"/", "ecofresh", "/", "thank-you">>
  /\ req.referer = <<"https://site.example", "/", "page">>
  /\ Location = <<OwnOrigin, "/", "custom">>

\* The Referer header is set and parses as a URL on its own.
RefererParses == HasValue(req.referer) /\ req.referer[1] \in Origins

\* C10: with a thankYouUrl starting with "/" and no _redirect, the Location
\* is the Referer's origin followed by thankYouUrl when the Referer is
\* present and parses, and thankYouUrl on the request's own origin
\* otherwise; in every other case it is the chosen target resolved against
\* the request URL.
C10_SmartRedirect ==
  Redirected =>
    Location =
      IF /\ HasValue(ThankYouUrl) /\ ThankYouUrl[1] = "/"
         /\ ~HasValue(Submitted("_redirect"))
      THEN IF RefererParses THEN <<req.referer[1]>> \o ThankYouUrl
           ELSE <<OwnOrigin>> \o ThankYouUrl
      ELSE OnRequestUrl(Chosen)

\* The form's /ecofresh/thank-you placed on the origin of the Referer.
C10_Witness ==
  /\ Redirected /\ handler = "worker"
  /\ ~HasValue(Submitted("_redirect"))
  /\ req.referer = <<"https://site.example", "/", "page">>
  /\ Location = <<"https://site.example", "/", "ecofresh", "/", "thank-you">>

\* The response carries the three CORS headers and their values.
HasCors(res) ==
  /\ {"Access-Control-Allow-Origin", "Access-Control-Allow-Methods",
      "Access-Control-Allow-Headers"} \subseteq DOMAIN res.headers
  /\ res.headers["Access-Control-Allow-Origin"] = <<"*">>
  /\ res.headers["Access-Control-Allow-Methods"] = <<"POST, OPTIONS">>
  /\ res.headers["Access-Control-Allow-Headers"] = <<"Content-Type">>

\* C11: every response either worker returns, for every method, path and
\* outcome (204, 200, 303, 400, 404, 405, 503), carries the three CORS
\* headers Access-Control-Allow-Origin: *, Access-Control-Allow-Methods:
\* POST, OPTIONS and Access-Control-Allow-Headers: Content-Type.
C11_EveryResponseCors == Answered => HasCors(response)

\* C12: a GET or POST to /thank-you is answered 200 with the static HTML
\* page (Content-Type text/html), without parsing a body and without a call
\* to the provider.
C12_ThankYouPage ==
  (Answered /\ req.method \in {"GET", "POST"}
            /\ req.pathname = <<"/", "thank-you">>)
    => /\ response.status = 200
       /\ "Content-Type" \in DOMAIN response.headers
       /\ response.headers["Content-Type"] = <<"text/html">>
       /\ data = NoData
       /\ calls = <<>>

\* C13: for a request other than OPTIONS, the path is treated as a
\* submission route exactly when it is /submit or /{name}/submit with one
\* non-empty name; every other path except /thank-you (//submit, /submit/,
\* /a/b/submit, /a/submit/x) is answered 404 `Not Found` at once, its body
\* never parsed and nothing dispatched.
C13_SubmissionRoutes ==
  (pc /= "idle" /\ req.method /= "OPTIONS"
                /\ req.pathname /= <<"/", "thank-you">>)
    => IF SubmissionPath(req.pathname)
       THEN Answered => response.status /= 404
       ELSE /\ Answered
            /\ response.status = 404
            /\ response.body = <<"Not Found">>
            /\ data = NoData
            /\ calls = <<>>

\* C14: an OPTIONS request to any path is answered at once with 204, an
\* empty body and the CORS headers, by either worker; it never reaches the
\* credential check, the parser or the dispatcher.
C14_Preflight ==
  (pc /= "idle" /\ req.method = "OPTIONS")
    => /\ Answered
       /\ response.status = 204
       /\ response.body = <<>>
       /\ HasCors(response)
       /\ data = NoData
       /\ calls = <<>>

\* A preflight to a submission path of a worker whose credentials are both
\* missing: 204, not the 400 a POST would get.
C14_Witness ==
  /\ Answered /\ handler = "worker" /\ req.method = "OPTIONS"
  /\ req.pathname = <<"/", "ecofresh", "/", "submit">>
  /\ env.MAILGUN_API_KEY = Undefined /\ env.MAILGUN_DOMAIN = Undefined
  /\ response.status = 204
  /\ HasCors(response)

\* The configuration the _form field names, when it names one of the table.
FieldNamesConfig ==
  /\ NonEmpty("_form")
  /\ Len(Submitted("_form")) = 1
  /\ Submitted("_form")[1] \in DOMAIN formConfigs

FieldConfig == formConfigs[Submitted("_form")[1]]

\* The sender the claims expect for the request's path.
ResolvedFrom ==
  IF Configured(req.pathname) /\ "fromEmail" \in DOMAIN ConfigOf(req.pathname)
  THEN ConfigOf(req.pathname).fromEmail
  ELSE defaultConfigs.defaultFromEmail

\* C15 as stated: a POST carrying _form=X is handled with X's FormConfig:
\* every call goes to X's recipients from X's sender with X's subject.
C15_Original ==
  (handler = "worker" /\ IsPost /\ FieldNamesConfig) =>
    \A j \in 1..Len(calls) :
      /\ j <= Len(FieldConfig.notifyTo)
      /\ calls[j].to = FieldConfig.notifyTo[j]
      /\ calls[j].from = FieldConfig.fromEmail
      /\ calls[j].subject = FieldConfig.subject

\* C15: a POST carrying a _form field is handled with the FormConfig of its
\* path, whatever _form names: the calls go to the path's recipients from
\* the path's sender (the defaults when the path names no form), a disabled
\* path sends nothing, and a 303 without _redirect leads to the path's
\* thankYouUrl when it has one.
C15_PathSelectsConfig ==
  (handler = "worker" /\ IsPost /\ NonEmpty("_form")) =>
    /\ \A j \in 1..Len(calls) :
         /\ j <= Len(ResolvedRecipients)
         /\ calls[j].to = ResolvedRecipients[j]
         /\ calls[j].from = ResolvedFrom
    /\ DisabledPath(req.pathname) => calls = <<>>
    /\ (Redirected /\ ~HasValue(Submitted("_redirect")) /\ HasValue(ThankYouUrl))
         => Location \in {OnRequestUrl(ThankYouUrl)}
                          \cup {<<o>> \o ThankYouUrl : o \in Origins}

\* _form=ecofresh posted to /support/submit: the support desk's recipients
\* are all called, none of ecofresh's.
C15_Witness ==
  /\ Redirected /\ handler = "worker"
  /\ req.pathname = <<"/", "support", "/", "submit">>
  /\ Submitted("_form") = <<"ecofresh">>
  /\ Dispatched = formConfigs.support.notifyTo
  /\ Dispatched /= formConfigs.ecofresh.notifyTo

\* The path is /{name}/submit for a name every object inherits a property
\* of.
Inherited(p) ==
  \E n \in {"constructor"} : p = <<"/", n, "/", "submit">>

\* C16 as stated: when the path resolves to no FormConfig the form name of
\* the subject is the literal `contact`, whatever the submission carries.
C16_Original ==
  (handler = "worker" /\ ~Configured(req.pathname)) =>
    \A j \in 1..Len(calls) :
      calls[j].subject = <<"New ", "contact", " submission">>

\* The name the submission gives itself, `contact` when it gives none.
FieldOrContact ==
  IF NonEmpty("_form") THEN Submitted("_form") ELSE <<"contact">>

\* C16: when the path names no property of the table, own or inherited
\* (bare /submit, or /{name}/submit with an unknown name), the form name is
\* the submission's non-empty _form field and the literal `contact`
\* without one, and the subject is `New <name> submission`.
C16_FallbackName ==
  (handler = "worker" /\ ~Configured(req.pathname) /\ ~Inherited(req.pathname)) =>
    /\ calls /= <<>> => formName = FieldOrContact
    /\ \A j \in 1..Len(calls) :
         calls[j].subject = <<"New ">> \o FieldOrContact \o <<" submission">>

\* A submission to an unknown form that names itself ecofresh.
C16_Witness ==
  /\ Redirected /\ handler = "worker"
  /\ req.pathname = <<"/", "other", "/", "submit">>
  /\ Submitted("_form") = <<"ecofresh">>
  /\ calls[1].subject = <<"New ", "ecofresh", " submission">>

\* No _redirect, no thankYouUrl and no ?redirect= to choose a target from.
NoTargetGiven ==
  /\ ~HasValue(Submitted("_redirect"))
  /\ ~HasValue(ThankYouUrl)
  /\ ~HasValue(req.redirect)

MalformedJson ==
  /\ \E i \in 1..Len(req.body.ct) : req.body.ct[i] = "application/json"
  /\ req.body.shape /= "pairs"

\* C18: a POST to a submission path, credentials in place, whose body
\* announces JSON and is invalid JSON or JSON that is no object, is answered
\* 400 with a body starting `Error: `, and no call to the provider is made.
C18_MalformedJsonRefused ==
  (handler = "worker" /\ IsPost /\ SubmissionPath(req.pathname)
     /\ BothCredentials /\ MalformedJson)
    => /\ calls = <<>>
       /\ pc /= "sendWithMailgun"
       /\ Answered => /\ response.status = 400
                       /\ response.body /= <<>>
                       /\ response.body[1] = "Error: "

\* The names of the pairs the body carries.
SubmittedNames == {req.body.pairs[i][1] : i \in 1..Len(req.body.pairs)}

\* The body's pairs were parsed into a flat object.
ParsedPairs ==
  handler = "worker" /\ req.body.shape = "pairs" /\ data.kind = "object"

\* The parsed object as a set of name/value pairs.
ParsedMapping == {<<data.entries[i][1], data.entries[i][2]>> :
                    i \in 1..Len(data.entries)}

\* C19: parseBody returns the same flat name-to-string mapping for a set of
\* pairs whichever of the three encodings carries it: every submitted name
\* mapped to its value, that of the last occurrence for a repeated name, and
\* nothing else.
C19_SameMapping ==
  ParsedPairs => ParsedMapping = {<<k, Submitted(k)>> : k \in SubmittedNames}

\* The same for bodies without a field named __proto__.
C19_OrdinaryNames ==
  (ParsedPairs /\ "__proto__" \notin SubmittedNames)
    => ParsedMapping = {<<k, Submitted(k)>> : k \in SubmittedNames}

\* Every recipient of the list was sent to, each call with success.
FanOutSucceeded ==
  /\ calls /= <<>>
  /\ Len(calls) = Len(recipients)
  /\ \A j \in 1..Len(calls) : calls[j].outcome.ok

\* C20: once the dispatch to every recipient has succeeded the request is
\* answered 303 with a Location header, never 400, whatever _redirect, the
\* query redirect, thankYouUrl and the Referer are.
C20_SuccessThenRedirect ==
  (handler = "worker" /\ Answered /\ FanOutSucceeded)
    => /\ response.status = 303
       /\ "Location" \in DOMAIN response.headers

\* The calls that have returned or thrown.
Made == {p \in Calls : rate[p].pc = "done"}

\* No call is between its start and its end.
Quiet == \A p \in Calls : rate[p].pc \in {"idle", "done"}

\* Every call made so far was made in the same window.
OneWindow == \A p, q \in Made : rate[p].bucket = rate[q].bucket

\* Two calls were handed the same stored value by kv.get.
ReadTheSame == \E p, q \in Made : p /= q /\ rate[p].val = rate[q].val

\* The count and the bucket the stored text denotes.
StoredCount ==
  CHOOSE n \in Numerals : \E k \in 1..Len(kv.value) :
    kv.value[k] = ":" /\ SubSeq(kv.value, 1, k - 1) = <<ToString(n)>>

StoredBucket ==
  CHOOSE n \in Numerals : \E k \in 1..Len(kv.value) :
    kv.value[k] = ":" /\ SubSeq(kv.value, k + 1, Len(kv.value)) = <<ToString(n)>>

\* The calls that returned without the `Rate limited` error.
Admitted == {p \in Made : rate[p].error = Undefined}

\* C21: with concurrent calls from one IP in one window the stored count
\* never exceeds the number of calls made, and it ends lower than that
\* number whenever two of the calls read the same stored value; more than
\* `limit` calls can then return without the `Rate limited` error.
C21_RaceUnderCounts ==
  (Quiet /\ Made /= {} /\ OneWindow) =>
    /\ StoredCount <= Cardinality(Made)
    /\ ReadTheSame => StoredCount < Cardinality(Made)

\* limit + 1 calls in one window, two of them interleaved so that both read
\* the same value: all of them admitted, the stored count one short.
C21_Witness ==
  /\ Quiet /\ OneWindow /\ ReadTheSame
  /\ Cardinality(Made) = limit + 1
  /\ Admitted = Made
  /\ StoredCount = limit

\* The number of calls made so far, call p included, in the window of p.
Rank(p) ==
  Cardinality({q \in Made : q <= p /\ rate[q].bucket = rate[p].bucket})

\* The call made last.
LastMade == CHOOSE p \in Made : \A q \in Made : q <= p

\* C22 as stated: with calls made one at a time, limit 5 and window 600 s,
\* a call throws `Rate limited` exactly when it is at least the 6th call of
\* its window bucket, the first call of a new bucket counts 1, and every
\* call, a rejected one included, leaves `{count}:{bucket}` in the store.
C22_Original ==
  /\ \A p \in Made :
       /\ rate[p].error = <<"Rate limited">> <=> Rank(p) >= 6
       /\ rate[p].count = Rank(p)
  /\ (Quiet /\ Made /= {}) =>
       /\ kv /= NoEntry
       /\ kv.value = <<ToString(Rank(LastMade)), ":",
                       ToString(rate[LastMade].bucket)>>

\* kv.get settled less than 60 s after the end of the window in which the
\* call read the clock: no entry written in that window has expired.
ReadInTime(p) == rate[p].readAt < (rate[p].bucket + 1) * 600 + 60

\* C22: with calls made one at a time, limit 5 and window 600 s, each call
\* reading the store in time, a call throws `Rate limited` exactly when it
\* is at least the 6th call of its window bucket; its count is its rank in
\* the bucket, so the first call of a new bucket counts 1; and every call,
\* a rejected one included, leaves `{count}:{bucket}` in the store.
C22_SequentialLimit ==
  (\A p \in Made : ReadInTime(p)) =>
    /\ \A p \in Made :
         /\ rate[p].error = <<"Rate limited">> <=> Rank(p) >= 6
         /\ rate[p].error \in {Undefined, <<"Rate limited">>}
         /\ rate[p].count = Rank(p)
    /\ (Quiet /\ Made /= {}) =>
         /\ kv /= NoEntry
         /\ kv.value = <<ToString(Rank(LastMade)), ":",
                         ToString(rate[LastMade].bucket)>>

\* Six calls in the first window, the sixth rejected and stored as 6:0.
C22_Witness ==
  /\ Quiet /\ Made = Calls /\ OneWindow
  /\ \A p \in Made : ReadInTime(p)
  /\ \A p \in Made : p <= 5 => rate[p].error = Undefined
  /\ rate[6].error = <<"Rate limited">>
  /\ kv.value = <<"6", ":", "0">>

\* The Referer header is set and is no URL.
RefererInvalid == HasValue(req.referer) /\ req.referer[1] \notin Origins

\* The form's thankYouUrl is root-relative and the submission gives no
\* _redirect.
RelativeThankYou ==
  /\ HasValue(ThankYouUrl) /\ ThankYouUrl[1] = "/"
  /\ ~HasValue(Submitted("_redirect"))

\* C23: a Referer that does not parse never produces an error response:
\* with a root-relative thankYouUrl and no _redirect, a submission whose
\* emails were all sent is answered 303 with thankYouUrl on the request's
\* own origin, and the emails sent are those of the form's recipient list.
C23_InvalidRefererAbsorbed ==
  (handler = "worker" /\ Answered /\ FanOutSucceeded
     /\ RefererInvalid /\ RelativeThankYou)
    => /\ response.status = 303
       /\ Location = <<OwnOrigin>> \o ThankYouUrl
       /\ Dispatched = ResolvedRecipients

\* A submission to /ecofresh/submit with the Referer `not-a-url`.
C23_Witness ==
  /\ Redirected /\ handler = "worker"
  /\ req.pathname = <<"/", "ecofresh", "/", "submit">>
  /\ req.referer = <<"not-a-url">>
  /\ ~HasValue(Submitted("_redirect"))
  /\ Len(calls) = 2
  /\ Location = <<OwnOrigin, "/", "ecofresh", "/", "thank-you">>

\* The body has been parsed and the configuration of the path looked up.
LookedUp == handler = "worker" /\ data /= NoData

\* C24: getFormConfig returns a FormConfig only for a path whose first
\* segment is, exactly and case-sensitively, a key of the configuration
\* table and whose second segment is `submit`; for every other first
\* segment it returns nothing, and the request is handled with the
\* defaults.
C24_ExactKeyOnly ==
  LookedUp =>
    /\ formConfig = IF Configured(req.pathname) THEN ConfigOf(req.pathname)
                    ELSE Null
    /\ ~Configured(req.pathname) =>
         \A j \in 1..Len(calls) :
           /\ calls[j].to = defaultConfigs.defaultNotifyTo
           /\ calls[j].from = defaultConfigs.defaultFromEmail
           /\ calls[j].subject = <<"New ">> \o FieldOrContact \o <<" submission">>

\* The same for the paths whose first segment is no name every object
\* inherits.
C24_OwnAndUnknownKeys ==
  (LookedUp /\ ~Inherited(req.pathname)) =>
    formConfig = IF Configured(req.pathname) THEN ConfigOf(req.pathname)
                 ELSE Null

\* The names of the submission as parsed.
ParsedNames ==
  IF data.kind = "object"
  THEN {data.entries[i][1] : i \in 1..Len(data.entries)}
  ELSE {}

\* The names that do not start with "_".
VisibleNames == {k \in ParsedNames : Spelling(k)[1] /= "_"}

\* The label a line of the plain-text document starts with.
TextLabel(line) ==
  SubSeq(line, 1, (CHOOSE i \in 1..Len(line) :
                     line[i] = ": " /\ \A j \in 1..(i - 1) : line[j] /= ": ") - 1)

Remaining ==
  CASE pc = "parseBody"       -> MaxRecipients + 1
    [] pc = "sendWithMailgun" -> Len(recipients) - idx + 1
    [] OTHER                  -> 0

\* C26: every request received reaches the terminal state with a response,
\* each provider call it makes returning in the end: whenever the handler
\* waits it can go on, every step it takes brings the end nearer, the
\* response, once produced, is the only one, and no call to the provider
\* is made after it.
C26_Terminates ==
  /\ [](pc \in {"parseBody", "sendWithMailgun"} =>
         ENABLED (ParseBody \/ \E o \in ProviderOutcomes : SendWithMailgun(o)))
  /\ [][pc /= "idle" => Remaining' < Remaining]_vars
  /\ [](Remaining = 0 /\ pc /= "idle" => Answered /\ response /= NoResponse)
  /\ [][response /= NoResponse => (response' = response /\ calls' = calls)]_vars
  /\ [](response /= NoResponse => Answered)

\* The conclusion itself, under the fairness of SpecFair: a request received
\* is answered in the end.
C26_EventuallyAnswered == (pc /= "idle") ~> Answered

\* The longest run: a submission to the form with the most recipients,
\* answered after a call to each.
C26_Witness ==
  /\ Redirected /\ handler = "worker"
  /\ req.pathname = <<"/", "support", "/", "submit">>
  /\ Len(calls) = MaxRecipients
  /\ \A j \in 1..Len(calls) : calls[j].outcome.ok

====
